---- MODULE Spec2Model ----
(***************************************************************************)
(* Model of the rt_gpu renderer (src/src/renderer.rs) and of the host loop *)
(* that drives it (src/src/main.rs).                                       *)
(*                                                                         *)
(* GPU buffers are modelled at the granularity of 4-byte words: a buffer   *)
(* of `size` bytes holds size / F32_SIZE words.  An f32 literal is an      *)
(* integer (in thousandths where the source uses fractions); the result of *)
(* f32::sin is the uninterpreted term <<"sin", elapsed, x>>.               *)
(*                                                                         *)
(* Queue writes (write_buffer, write_buffer_with) are ordered before every *)
(* later submission on the same queue, so the contents a later draw reads  *)
(* are those of the last write; the model applies a write when it is       *)
(* issued.                                                                 *)
(***************************************************************************)
EXTENDS Integers, Sequences, FiniteSets, TLC

\* ------------------------------------------------------------------ bounds
MaxSpheres == 5     \* longest sphere sequence handed to update_spheres
MaxBuffers == 3     \* object buffers one device creates
MaxFrames  == 2     \* frames one renderer draws
MaxTargets == 2     \* windows the host opens
MaxEvents  == 1     \* WinitEvents waiting for the render system
MaxNow     == 10    \* last instant of the clock (ms)

\* --------------------------------------------------------- program constants
SPHERE_SIZE  == 32  \* std::mem::size_of::<Sphere>()
F32_SIZE     == 4   \* bytes of one f32 / u32 word
QUAD_INDICES == 6   \* QUAD_INDICES.len()
F32_MANTISSA == 24  \* significant bits of an f32 (`as f32`)
UPDATE_MS    == 10  \* Duration::from_millis(10)

\* ------------------------------------------------------------------ Option
None    == [some |-> FALSE]
Some(x) == [some |-> TRUE, v |-> x]

\* ------------------------------------------------------------------ state
VARIABLES
    renderer,   \* the Renderer under direct API calls
    last,       \* the last API call made on `renderer`, see Call
    camera_arg, \* Option: arguments of the most recent update_camera call
    app,        \* the process: "running", "exited" or "panicked"
    pc,         \* where the host is: "idle" (between callbacks of the event
                \* loop), the schedule App::redraw_requested runs next, or
                \* the schedule it panicked in
    idx,        \* the target the loop of the render system is at
    redraw_requested, \* App.redraw_requested
    last_update,      \* App.last_update (ms)
    now,        \* the monotonic clock, Instant::now() (ms)
    time,       \* the Time resource
    world,      \* the entities of the World: spheres, in query order
    events,     \* Events<WinitEvent> the render system has not read yet
    targets,    \* RenderTargets.targets
    windows,    \* number of windows created so far
    acquired    \* the last get_current_texture call: the window, the
                \* result, the calls the render system then made on the
                \* target's surface and renderer, and whether an earlier
                \* turn of the same run of the loop skipped its frame

api == <<renderer, last, camera_arg>>

host == <<app, pc, idx, redraw_requested, last_update, now, time, world,
          events, targets, windows, acquired>>

vars == <<renderer, last, camera_arg, app, pc, idx, redraw_requested,
          last_update, now, time, world, events, targets, windows, acquired>>

\* ------------------------------------------------------------ renderer.rs

\* bytemuck::cast_slice(&[*sphere]): the 8 words of a #[repr(C)] Sphere
\* { position: Vec3, radius: f32, color: Vec4 }.
CastSphere(s) ==
    <<s.position[1], s.position[2], s.position[3], s.radius,
      s.color[1], s.color[2], s.color[3], s.color[4]>>

\* bytemuck::cast_slice(&[CameraUniform { width, height }])
CastCameraUniform(width, height) == <<width, height>>

\* bytemuck::cast_slice(&[TimeUniform { elapsed_ms, _padding: 0 }])
CastTimeUniform(elapsed_ms) == <<elapsed_ms, 0>>

\* device.create_buffer: a zeroed buffer of `size` bytes with a fresh handle.
create_buffer(device, size) ==
    [id |-> device.created + 1, size |-> size,
     data |-> [w \in 1..(size \div F32_SIZE) |-> 0]]

\* create_objects_buffer(device, size): (layout, Option<Buffer>, Option<BindGroup>).
\* The bind group is built from buffer.as_entire_binding().
create_objects_buffer(device, size) ==
    IF size = 0
    THEN [device |-> device, buffer |-> None, bind_group |-> None]
    ELSE LET buffer == create_buffer(device, size) IN
         [device     |-> [device EXCEPT !.created = @ + 1],
          buffer     |-> Some(buffer),
          bind_group |-> Some([buffer |-> buffer.id, size |-> buffer.size])]

\* Renderer::new: the state of a freshly built renderer.
NewRenderer ==
    LET device  == [created |-> 0]
        objects == create_objects_buffer(device, 0) IN
    [device             |-> objects.device,
     queue              |-> [submits |-> 0, draw_calls |-> 0],
     camera_buffer      |-> CastCameraUniform(1, 1),
     time_buffer        |-> CastTimeUniform(0),
     objects_buffer     |-> objects.buffer,
     objects_bind_group |-> objects.bind_group]

\* update_camera writing the width alone, the height keeping its old value.
update_camera_width_only(r, width, height) ==
    [r EXCEPT !.camera_buffer = CastCameraUniform(width, @[2])]

\* Renderer::update_camera
update_camera(r, width, height) ==
    [r EXCEPT !.camera_buffer = CastCameraUniform(width, height)]

\* update_time that also submits a frame.
update_time_and_draw(r, elapsed_ms) ==
    [r EXCEPT !.time_buffer = CastTimeUniform(elapsed_ms),
              !.queue = [submits    |-> @.submits + 1,
                         draw_calls |-> @.draw_calls + 1]]

\* Renderer::update_time
update_time(r, elapsed_ms) ==
    [r EXCEPT !.time_buffer = CastTimeUniform(elapsed_ms)]

\* The copy loop with chunks of the 7 words a Sphere has without the
\* padding of its 16-byte alignment.
WriteSpheres_unpadded(view, spheres) ==
    LET stride == (SPHERE_SIZE \div F32_SIZE) - 1 IN
    [w \in 1..Len(view) |->
        LET c == ((w - 1) \div stride) + 1 IN
        IF c <= Len(spheres)
        THEN CastSphere(spheres[c])[((w - 1) % stride) + 1]
        ELSE view[w]]

\* The loop of update_spheres: buffer_view.chunks_mut(SPHERE_SIZE) zipped
\* with the spheres, each chunk overwritten by the words of its sphere.
WriteSpheres(view, spheres) ==
    LET stride == SPHERE_SIZE \div F32_SIZE IN
    [w \in 1..Len(view) |->
        LET c == ((w - 1) \div stride) + 1 IN
        IF c <= Len(spheres)
        THEN CastSphere(spheres[c])[((w - 1) % stride) + 1]
        ELSE view[w]]

\* The `if resize` block assigning the new buffer and keeping the bind
\* group of the old one.
ReplaceObjects_buffer_only(r, new_size) ==
    LET objects == create_objects_buffer(r.device, new_size) IN
    [r EXCEPT !.device         = objects.device,
              !.objects_buffer = objects.buffer]

\* update_spheres, the `if resize` block: the buffer and the bind group
\* are replaced by new ones of new_size bytes (unmap of the old buffer,
\* which is never mapped, changes nothing).
ReplaceObjects(r, new_size) ==
    LET objects == create_objects_buffer(r.device, new_size) IN
    [r EXCEPT !.device             = objects.device,
              !.objects_buffer     = objects.buffer,
              !.objects_bind_group = objects.bind_group]

\* update_spheres, the `if resize` block statement by statement: what the
\* fields hold after `self.objects_buffer = objects_buffer`, which drops
\* the Buffer the field held, and after `self.objects_bind_group =
\* objects_bind_group`, which drops the BindGroup the field held; `dropped`
\* has the ids of the buffers whose handle was dropped so far.
ReplaceSteps(r, new_size) ==
    LET objects == create_objects_buffer(r.device, new_size)
        dropped == IF r.objects_buffer.some THEN {r.objects_buffer.v.id} ELSE {} IN
    <<[objects_buffer     |-> objects.buffer.v.id,
       objects_bind_group |-> r.objects_bind_group,
       dropped            |-> dropped],
      [objects_buffer     |-> objects.buffer.v.id,
       objects_bind_group |-> objects.bind_group,
       dropped            |-> dropped]>>

\* update_spheres, from write_buffer_with on: a staging view of new_size
\* bytes is filled by the copy loop and written at offset 0 of the
\* object buffer.
WriteObjects(r, new_size, spheres) ==
    LET staging == [w \in 1..(new_size \div F32_SIZE) |-> 0]
        view    == WriteSpheres(staging, spheres) IN
    [r EXCEPT !.objects_buffer.v.data =
        [w \in 1..Len(@) |-> IF w <= Len(view) THEN view[w] ELSE @[w]]]

\* update_spheres that reallocates only when the buffer is too small.
update_spheres_keep_larger(r, spheres) ==
    LET new_size == Len(spheres) * SPHERE_SIZE
        resize   == IF r.objects_buffer.some
                    THEN r.objects_buffer.v.size < new_size
                    ELSE TRUE IN
    IF new_size = 0
    THEN r
    ELSE WriteObjects(IF resize THEN ReplaceObjects(r, new_size) ELSE r,
                      new_size, spheres)

\* update_spheres that allocates a buffer once and never replaces it.
update_spheres_allocate_once(r, spheres) ==
    LET new_size == Len(spheres) * SPHERE_SIZE
        resize   == ~r.objects_buffer.some IN
    IF new_size = 0
    THEN r
    ELSE WriteObjects(IF resize THEN ReplaceObjects(r, new_size) ELSE r,
                      new_size, spheres)

\* update_spheres without the early return: an empty update replaces the
\* buffer and the binding by what create_objects_buffer gives for size 0.
update_spheres_clear(r, spheres) ==
    LET new_size == Len(spheres) * SPHERE_SIZE
        resize   == IF r.objects_buffer.some
                    THEN r.objects_buffer.v.size # new_size
                    ELSE TRUE
        r1       == IF resize THEN ReplaceObjects(r, new_size) ELSE r IN
    IF r1.objects_buffer.some THEN WriteObjects(r1, new_size, spheres) ELSE r1

\* update_spheres that replaces the buffer and the binding on every
\* non-empty update.
update_spheres_always_replace(r, spheres) ==
    LET new_size == Len(spheres) * SPHERE_SIZE IN
    IF new_size = 0
    THEN r
    ELSE WriteObjects(ReplaceObjects(r, new_size), new_size, spheres)

\* Renderer::update_spheres
update_spheres(r, spheres) ==
    LET new_size == Len(spheres) * SPHERE_SIZE
        resize   == IF r.objects_buffer.some
                    THEN r.objects_buffer.v.size # new_size
                    ELSE TRUE IN
    IF new_size = 0
    THEN r
    ELSE WriteObjects(IF resize THEN ReplaceObjects(r, new_size) ELSE r,
                      new_size, spheres)

\* update_spheres up to the call of write_buffer_with: the early return,
\* then the `if resize` block.
update_spheres_until_write(r, spheres) ==
    LET new_size == Len(spheres) * SPHERE_SIZE
        resize   == IF r.objects_buffer.some
                    THEN r.objects_buffer.v.size # new_size
                    ELSE TRUE IN
    IF new_size # 0 /\ resize THEN ReplaceObjects(r, new_size) ELSE r

\* The render pass Renderer::render encodes: the pipeline, the bind groups
\* set at slots 0, 1 and 2 (for the two uniform slots, the words their
\* buffers hold when the pass is submitted), the quad buffers and one
\* indexed draw over QUAD_INDICES.
RenderPass(r) ==
    [slot0        |-> r.camera_buffer,
     slot1        |-> r.time_buffer,
     slot2        |-> r.objects_bind_group,
     draw_indexed |-> QUAD_INDICES]

\* render that also writes 0 to the time uniform.
render_resetting_time(r) ==
    [r EXCEPT !.time_buffer = CastTimeUniform(0),
              !.queue = [submits    |-> @.submits + 1,
                         draw_calls |-> @.draw_calls + 1]]

\* Renderer::render: encodes RenderPass(r) and submits it to the queue.
\* The queue counts the submissions and draw calls pending on it.
render(r) ==
    [r EXCEPT !.queue = [submits    |-> @.submits + 1,
                         draw_calls |-> @.draw_calls + 1]]

\* --------------------------------------------------- inputs of the API calls

\* Sphere number i of scene variant v.
SphereOf(i, v) ==
    [position |-> <<i, v, 0>>, radius |-> i + v, color |-> <<v, i, 0, 1>>]

\* A scene of n spheres.
SceneOf(n, v) == [i \in 1..n |-> SphereOf(i, v)]

Variants == {1, 2}

Scenes == {SceneOf(n, v) : n \in 0..MaxSpheres, v \in Variants}

Widths == {400, 800}

Heights == {300, 600}

Times == {0, 16}

\* The handle (id and size) of the object buffer a renderer holds, if any.
BufferHandle(r) ==
    IF r.objects_buffer.some
    THEN Some([id |-> r.objects_buffer.v.id, size |-> r.objects_buffer.v.size])
    ELSE None

\* The record the harness keeps of one call: the operation, its arguments,
\* the render pass it submitted (render) or the steps of the replacement
\* it made (update_spheres), and the object buffer the renderer held
\* before the call.
Call(op, args, out) ==
    [op |-> op, args |-> args, out |-> out, before |-> BufferHandle(renderer)]

\* ------------------------------------------------------------------ main.rs

\* generate_scene: five animated spheres, then two still ones (f32 in
\* thousandths).
generate_scene ==
    <<[animate |-> TRUE,
       sphere |-> [radius |-> 1000, position |-> <<-1500, 0, 500>>,
                   color |-> <<0, 0, 0, 1000>>]],
      [animate |-> TRUE,
       sphere |-> [radius |-> 500, position |-> <<-500, 0, 200>>,
                   color |-> <<0, 0, 0, 1000>>]],
      [animate |-> TRUE,
       sphere |-> [radius |-> 250, position |-> <<0, 0, 0>>,
                   color |-> <<800, 600, 200, 1000>>]],
      [animate |-> TRUE,
       sphere |-> [radius |-> 500, position |-> <<500, 0, 200>>,
                   color |-> <<0, 0, 0, 1000>>]],
      [animate |-> TRUE,
       sphere |-> [radius |-> 1000, position |-> <<1500, 0, 500>>,
                   color |-> <<0, 0, 0, 1000>>]],
      [animate |-> FALSE,
       sphere |-> [radius |-> 3000, position |-> <<-2500, 4000, 1500>>,
                   color |-> <<100, 5, 5, 1000>>]],
      [animate |-> FALSE,
       sphere |-> [radius |-> 3000, position |-> <<2500, -4000, 1500>>,
                   color |-> <<7, 7, 100, 1000>>]]>>

\* Unit in the last place of the f32 nearest to the integer n.
RECURSIVE Ulp(_)
Ulp(n) == IF n < 2 ^ F32_MANTISSA THEN 1 ELSE 2 * Ulp(n \div 2)

\* `x as f32` for a non-negative integer x: round to 24 significant bits,
\* ties to even.
AsF32(x) ==
    LET q  == Ulp(x)
        lo == (x \div q) * q
        r  == x - lo IN
    IF 2 * r < q THEN lo
    ELSE IF 2 * r > q THEN lo + q
    ELSE IF (lo \div q) % 2 = 0 THEN lo ELSE lo + q

\* Time::update measuring from the instant back to the start.
TimeUpdate_reversed(t, instant) == [t EXCEPT !.time_ms = t.start - instant]

\* Time::update
TimeUpdate(t, instant) == [t EXCEPT !.time_ms = instant - t.start]

\* animate_spheres: position.y = sin(elapsed / 1000.0 + position.x) for
\* every sphere with Animate.
animate_spheres(entities, t) ==
    [i \in 1..Len(entities) |->
        IF entities[i].animate
        THEN [entities[i] EXCEPT !.sphere.position[2] =
                 <<"sin", AsF32(t.time_ms), entities[i].sphere.position[1]>>]
        ELSE entities[i]]

\* Query<&Sphere>::iter()
QuerySpheres(entities) == [i \in 1..Len(entities) |-> entities[i].sphere]

\* surface.configure(&device, &config)
configure(surface, config) == [surface EXCEPT !.config = config]

\* RenderTarget::resize without the surface.configure call.
resize_config_only(t, size) ==
    [t EXCEPT !.config.width  = size.width,
              !.config.height = size.height,
              !.renderer = update_camera(@, size.width, size.height),
              !.calls    = @ \o <<<<"update_camera", size.width, size.height>>>>]

\* RenderTarget::resize without the update_camera call.
resize_without_camera(t, size) ==
    LET config == [t.config EXCEPT !.width = size.width, !.height = size.height] IN
    [t EXCEPT !.config   = config,
              !.surface  = configure(@, config),
              !.calls    = @ \o <<<<"configure", config.width, config.height>>>>]

\* RenderTarget::resize.  window.request_redraw() asks the windowing system
\* for a RedrawRequested event, which it may send at any time anyway
\* (action RedrawRequested): the request adds no state.  `calls` lists the
\* calls made on the surface and the renderer of the target.
resize(t, size) ==
    LET config == [t.config EXCEPT !.width = size.width, !.height = size.height] IN
    [t EXCEPT !.config   = config,
              !.surface  = configure(@, config),
              !.renderer = update_camera(@, size.width, size.height),
              !.calls    = @ \o <<<<"configure", config.width, config.height>>,
                                  <<"update_camera", size.width, size.height>>>>]

\* RenderTargets::add
add(ts, window) ==
    LET size     == window.inner_size
        config   == [width |-> size.width, height |-> size.height,
                     present_mode |-> "Fifo"]
        surface  == [config |-> None] IN
    Append(ts, [window   |-> window,
                surface  |-> configure(surface, config),
                config   |-> config,
                renderer |-> update_camera(NewRenderer, size.width, size.height),
                calls    |-> <<>>])

\* RenderTargets::get_mut: the index of the first target of that window,
\* 0 for None.
get_mut(ts, window_id) ==
    IF \E i \in 1..Len(ts) : ts[i].window.id = window_id
    THEN CHOOSE i \in 1..Len(ts) :
            /\ ts[i].window.id = window_id
            /\ \A j \in 1..(i - 1) : ts[j].window.id # window_id
    ELSE 0

\* RenderTargets::remove
RECURSIVE remove(_, _)
remove(ts, window_id) ==
    IF ts = <<>> THEN <<>>
    ELSE IF Head(ts).window.id = window_id
         THEN remove(Tail(ts), window_id)
         ELSE <<Head(ts)>> \o remove(Tail(ts), window_id)

\* extract_time
extract_time(t, ts) ==
    [i \in 1..Len(ts) |->
        [ts[i] EXCEPT !.renderer = update_time(@, AsF32(t.time_ms))]]

\* extract_spheres
extract_spheres(entities, ts) ==
    [i \in 1..Len(ts) |->
        [ts[i] EXCEPT !.renderer = update_spheres(@, QuerySpheres(entities))]]

\* update_spheres reaches create_objects_buffer with a non-zero size: the
\* device has to allocate a buffer.
Allocates(r, spheres) ==
    update_spheres(r, spheres).device.created # r.device.created

\* extract_spheres when write_buffer_with gives None in the update_spheres
\* of the target at index j: the targets before it are updated, the
\* target itself is left where the unwrap panics, the targets after it
\* are not reached.
extract_spheres_before(entities, ts, j) ==
    [i \in 1..Len(ts) |->
        IF i < j
        THEN [ts[i] EXCEPT !.renderer = update_spheres(@, QuerySpheres(entities))]
        ELSE IF i = j
        THEN [ts[i] EXCEPT !.renderer =
                 update_spheres_until_write(@, QuerySpheres(entities))]
        ELSE ts[i]]

\* render, first loop: every unread event; Resized resizes its target and
\* the unwrap panics when the target is gone.
RECURSIVE ReadEvents(_, _)
ReadEvents(ts, evs) ==
    IF evs = <<>> THEN [targets |-> ts, panicked |-> FALSE]
    ELSE IF Head(evs).kind = "Resized"
         THEN IF get_mut(ts, Head(evs).window) = 0
              THEN [targets |-> ts, panicked |-> TRUE]
              ELSE ReadEvents(
                       [ts EXCEPT ![get_mut(ts, Head(evs).window)] =
                           resize(@, Head(evs).size)],
                       Tail(evs))
         ELSE ReadEvents(ts, Tail(evs))

\* surface_texture.present(): the work submitted for the texture goes to
\* the presentation engine and is no longer pending on the queue.
present(t) ==
    [t EXCEPT !.renderer.queue = [submits |-> 0, draw_calls |-> 0],
              !.calls = Append(@, <<"present", t.renderer.queue.draw_calls>>)]

\* render, second loop, Ok arm: Renderer::render, then present.
RenderAndPresent(t) ==
    present([t EXCEPT !.renderer = render(@),
                      !.calls    = Append(@, <<"render">>)])

\* The Lost arm doing what the Err(err) arm does: nothing.
LostIgnored(t) == t

\* render, second loop, Lost arm: target.resize(target.window.inner_size()).
LostReconfigure(t) == resize(t, t.window.inner_size)

\* The Err(err) arm doing what the Lost arm does: a reconfiguration.
TransientReconfigure(t) == resize(t, t.window.inner_size)

\* render, second loop, Err(err) arm: eprintln and continue.
TransientSkip(t) == t

\* Window::default_attributes(): the inner size of a new window.
DefaultSize == [width |-> 800, height |-> 600]

\* Physical sizes a window is resized to.
Sizes == {[width |-> 800, height |-> 600], [width |-> 400, height |-> 300]}

\* Steps of the clock between two callbacks (ms).
Delays == {10}

\* Time that passes between two readings of the clock that follow each
\* other (ms): in a tick, the Instant::now() of App::redraw_requested and
\* the one of Time::update; in App::new, the one of Time::default and the
\* one of last_update.
Holds == {0, 10}

\* ------------------------------------------- the renderer under direct calls

\* App::new.  The clock is read twice: init_resource::<Time>() reads it
\* for Time.start (instant 0 of the model) and `last_update:
\* Instant::now()` reads it again `held` ms later.
HostInit ==
    /\ app = "running"
    /\ pc = "idle"
    /\ idx = 0
    /\ redraw_requested = FALSE
    /\ \E held \in Holds :
          /\ held <= MaxNow
          /\ last_update = held
          /\ now = held
    /\ time = [start |-> 0, time_ms |-> 0]
    /\ world = generate_scene
    /\ events = <<>>
    /\ targets = <<>>
    /\ windows = 0
    /\ acquired = [window |-> 0, result |-> "none", calls |-> <<>>,
                   skipped |-> FALSE]

ApiInit ==
    /\ renderer = NewRenderer
    /\ last = [op |-> "new", args |-> <<>>, out |-> None, before |-> None]
    /\ camera_arg = None

Init == ApiInit /\ HostInit

UpdateCamera(width, height) ==
    /\ renderer' = update_camera(renderer, width, height)
    /\ last' = Call("update_camera", <<width, height>>, None)
    /\ camera_arg' = Some(<<width, height>>)
    /\ UNCHANGED host

UpdateTime(elapsed_ms) ==
    /\ renderer' = update_time(renderer, elapsed_ms)
    /\ last' = Call("update_time", <<elapsed_ms>>, None)
    /\ UNCHANGED <<camera_arg, host>>

UpdateSpheres(scene) ==
    /\ update_spheres(renderer, scene).device.created <= MaxBuffers
    /\ renderer' = update_spheres(renderer, scene)
    /\ last' = Call("update_spheres", scene,
                    IF Allocates(renderer, scene)
                    THEN Some(ReplaceSteps(renderer, Len(scene) * SPHERE_SIZE))
                    ELSE None)
    /\ UNCHANGED <<camera_arg, host>>

Render ==
    /\ renderer.queue.draw_calls < MaxFrames
    /\ renderer' = render(renderer)
    /\ last' = Call("render", <<>>, Some(RenderPass(renderer)))
    /\ UNCHANGED <<camera_arg, host>>

Next ==
    \/ \E width \in Widths, height \in Heights : UpdateCamera(width, height)
    \/ \E elapsed_ms \in Times : UpdateTime(elapsed_ms)
    \/ \E scene \in Scenes : UpdateSpheres(scene)
    \/ Render

Spec == Init /\ [][Next]_vars

\* ------------------------------------------------------------ the host loop

\* The clock advances between two callbacks of the event loop.
Elapse(d) ==
    /\ app = "running" /\ pc = "idle"
    /\ now + d <= MaxNow
    /\ now' = now + d
    /\ UNCHANGED <<api, app, pc, idx, redraw_requested, last_update, time,
                   world, events, targets, windows, acquired>>

\* ApplicationHandler::resumed: a window with the default attributes is
\* created and added as a target.
Resumed ==
    /\ app = "running" /\ pc = "idle"
    /\ windows < MaxTargets
    /\ windows' = windows + 1
    /\ targets' = add(targets, [id |-> windows + 1,
                                inner_size |-> DefaultSize])
    /\ UNCHANGED <<api, app, pc, idx, redraw_requested, last_update, now,
                   time, world, events, acquired>>

\* window_event, WindowEvent::Resized: the window has the new size and a
\* Resized event is sent.
WindowResized(i, size) ==
    /\ app = "running" /\ pc = "idle"
    /\ i \in 1..Len(targets)
    /\ Len(events) < MaxEvents
    /\ targets' = [targets EXCEPT ![i].window.inner_size = size]
    /\ events' = Append(events, [kind |-> "Resized",
                                 window |-> targets[i].window.id,
                                 size |-> size])
    /\ UNCHANGED <<api, app, pc, idx, redraw_requested, last_update, now,
                   time, world, windows, acquired>>

\* window_event, WindowEvent::CursorMoved
CursorMoved ==
    /\ app = "running" /\ pc = "idle"
    /\ Len(targets) > 0
    /\ Len(events) < MaxEvents
    /\ events' = Append(events, [kind |-> "CursorMoved"])
    /\ UNCHANGED <<api, app, pc, idx, redraw_requested, last_update, now,
                   time, world, targets, windows, acquired>>

\* window_event, WindowEvent::CloseRequested
CloseRequested(i) ==
    /\ app = "running" /\ pc = "idle"
    /\ i \in 1..Len(targets)
    /\ targets' = remove(targets, targets[i].window.id)
    /\ app' = IF Len(targets') = 0 THEN "exited" ELSE app
    /\ UNCHANGED <<api, pc, idx, redraw_requested, last_update, now, time,
                   world, events, windows, acquired>>

\* App::redraw_requested when should_update holds: the flag is cleared and
\* the schedules PreUpdate (time.update()), Update (animate_spheres; then
\* last_update = now) and Extract (extract_time, extract_spheres) run; the
\* Render schedule is next.  The clock is read twice: `now` is the reading
\* of App::redraw_requested, which last_update gets, and Time::update
\* reads it again `held` ms later.
BeginUpdate(held) ==
    /\ now + held <= MaxNow
    /\ now' = now + held
    /\ redraw_requested' = FALSE
    /\ time' = TimeUpdate(time, now')
    /\ world' = animate_spheres(world, time')
    /\ last_update' = now
    /\ targets' = extract_spheres(world', extract_time(time', targets))
    /\ pc' = "Render"

\* window_event, WindowEvent::RedrawRequested: the flag is set and
\* App::redraw_requested runs.
RedrawRequested(i, held) ==
    /\ app = "running" /\ pc = "idle"
    /\ i \in 1..Len(targets)
    /\ BeginUpdate(held)
    /\ UNCHANGED <<api, app, idx, events, windows, acquired>>

\* about_to_wait: App::redraw_requested runs the schedules when a redraw
\* was requested or UPDATE_MS have passed since the last update.
AboutToWait(held) ==
    /\ app = "running" /\ pc = "idle"
    /\ IF redraw_requested \/ now - last_update >= UPDATE_MS
       THEN BeginUpdate(held)
       ELSE UNCHANGED <<redraw_requested, time, world, last_update, targets,
                        pc, now>>
    /\ UNCHANGED <<api, app, idx, events, windows, acquired>>

\* App::redraw_requested when the staging memory for the write of the
\* object buffer of the target at index j cannot be had: update_spheres
\* has no error to return; write_buffer_with gives None and the unwrap
\* panics, on a tick that replaced the buffer as on one that kept it.
\* The systems extract_time and extract_spheres of the Extract schedule
\* are not ordered: extract_time has run or not.
ExtractOutOfMemory(j, timed, held) ==
    /\ app = "running" /\ pc = "idle"
    /\ j \in 1..Len(targets)
    /\ now + held <= MaxNow
    /\ now' = now + held
    /\ redraw_requested' = FALSE
    /\ time' = TimeUpdate(time, now')
    /\ world' = animate_spheres(world, time')
    /\ last_update' = now
    /\ Len(QuerySpheres(world')) > 0
    /\ targets' = extract_spheres_before(world',
                      IF timed THEN extract_time(time', targets) ELSE targets, j)
    /\ app' = "panicked"
    /\ pc' = "Extract"
    /\ UNCHANGED <<api, idx, events, windows, acquired>>

\* Render, first loop of the render system: the unread events.
RenderEvents ==
    /\ app = "running" /\ pc = "Render"
    /\ LET read == ReadEvents(targets, events) IN
         /\ targets' = [i \in 1..Len(read.targets) |->
                           [read.targets[i] EXCEPT !.calls = <<>>]]
         /\ app' = IF read.panicked THEN "panicked" ELSE app
         /\ pc' = IF read.panicked THEN "Render"
                  ELSE IF Len(read.targets) > 0 THEN "Targets" ELSE "idle"
         /\ idx' = IF ~read.panicked /\ Len(read.targets) > 0 THEN 1 ELSE 0
    /\ events' = <<>>
    /\ UNCHANGED <<api, redraw_requested, last_update, now, time, world,
                   windows, acquired>>

\* The loop left at the end of a turn as by `return`.
Continue_return ==
    /\ idx' = 0
    /\ pc' = "idle"

\* The loop over the targets goes to the next target, or the render system
\* returns.
Continue ==
    /\ idx' = IF idx < Len(targets) THEN idx + 1 ELSE 0
    /\ pc' = IF idx < Len(targets) THEN "Targets" ELSE "idle"

\* One turn of the second loop: get_current_texture on the target at idx
\* gave `result` and the arm of the match left the target as `after`.
Acquired(result, after) ==
    /\ acquired' = [window |-> targets[idx].window.id, result |-> result,
                    calls |-> after.calls,
                    skipped |-> /\ idx > 1
                                /\ \/ acquired.skipped
                                   \/ acquired.result \in
                                          {"Lost", "Outdated", "Timeout"}]
    /\ targets' = [targets EXCEPT ![idx] = [after EXCEPT !.calls = <<>>]]

\* Render, second loop, get_current_texture gives Ok(surface_texture).
AcquireOk ==
    /\ app = "running" /\ pc = "Targets"
    /\ Acquired("Ok", RenderAndPresent(targets[idx]))
    /\ Continue
    /\ UNCHANGED <<api, app, redraw_requested, last_update, now, time, world,
                   events, windows>>

\* Render, second loop, get_current_texture gives Err(Lost).
AcquireLost ==
    /\ app = "running" /\ pc = "Targets"
    /\ Acquired("Lost", LostReconfigure(targets[idx]))
    /\ Continue
    /\ UNCHANGED <<api, app, redraw_requested, last_update, now, time, world,
                   events, windows>>

\* Render, second loop, get_current_texture gives Err(OutOfMemory): todo!()
\* panics.
AcquireOutOfMemory ==
    /\ app = "running" /\ pc = "Targets"
    /\ Acquired("OutOfMemory", targets[idx])
    /\ app' = "panicked"
    /\ UNCHANGED <<api, pc, idx, redraw_requested, last_update, now, time,
                   world, events, windows>>

\* Render, second loop, get_current_texture gives another error.
AcquireTransient(err) ==
    /\ app = "running" /\ pc = "Targets"
    /\ Acquired(err, TransientSkip(targets[idx]))
    /\ Continue
    /\ UNCHANGED <<api, app, redraw_requested, last_update, now, time, world,
                   events, windows>>

HostNext ==
    \/ \E d \in Delays : Elapse(d)
    \/ Resumed
    \/ \E i \in 1..MaxTargets, size \in Sizes : WindowResized(i, size)
    \/ CursorMoved
    \/ \E i \in 1..MaxTargets : CloseRequested(i)
    \/ \E i \in 1..MaxTargets, held \in Holds : RedrawRequested(i, held)
    \/ \E held \in Holds : AboutToWait(held)
    \/ \E j \in 1..MaxTargets, timed \in BOOLEAN, held \in Holds :
          ExtractOutOfMemory(j, timed, held)
    \/ RenderEvents
    \/ AcquireOk
    \/ AcquireLost
    \/ AcquireOutOfMemory
    \/ \E err \in {"Outdated", "Timeout"} : AcquireTransient(err)

HostSpec == Init /\ [][HostNext]_vars

\* ---------------------------------------------------------------- claims

\* Capacity in bytes of the object store; no buffer is capacity 0.
Capacity(r) == IF r.objects_buffer.some THEN r.objects_buffer.v.size ELSE 0

\* Words of record i of a buffer under the 32-byte record layout.
RecordAt(data, i) == SubSeq(data, 8 * (i - 1) + 1, 8 * i)

\* C1 (as stated): after every update_spheres call, including one with 0
\* records, the capacity of the object store is count * 32 for the count
\* of that call.
C1_CapacityMatchesEveryCount ==
    last.op = "update_spheres" => Capacity(renderer) = Len(last.args) * 32

\* C1 (amended): after an update_spheres call with count > 0 records the
\* capacity of the object store is count * 32; after a call with 0 records
\* the capacity is what it was before the call.
C1_CapacityMatchesNonEmptyCount ==
    last.op = "update_spheres" =>
        IF Len(last.args) > 0
        THEN Capacity(renderer) = Len(last.args) * 32
        ELSE BufferHandle(renderer) = last.before

C1_Witness ==
    /\ last.op = "update_spheres"
    /\ Len(last.args) = 2
    /\ last.before.some
    /\ last.before.v.size = 160
    /\ Capacity(renderer) = 64

\* C2: update_spheres with zero records leaves the renderer as it was:
\* objects_buffer (handle and contents), objects_bind_group and every
\* other field.
C2_EmptyUpdateChangesNothing ==
    [][(last'.op = "update_spheres" /\ Len(last'.args) = 0)
          => renderer' = renderer]_vars

C2_Witness ==
    /\ last.op = "update_spheres"
    /\ Len(last.args) = 0
    /\ last.before.some
    /\ renderer.objects_buffer.some
    /\ renderer.objects_bind_group.some

\* C3 (as stated): a render called right after an update_spheres with zero
\* records binds a real (non-null) binding at slot 2, whatever calls came
\* before, also when no non-empty update ever happened.
C3_RenderAfterEmptyUpdateBindsObjects ==
    [][(last.op = "update_spheres" /\ Len(last.args) = 0 /\ last'.op = "render")
          => last'.out.v.slot2.some]_vars

\* C7: the camera uniform a render reads is the (width, height) of the most
\* recent update_camera call before it, both fields.
C7_RenderSeesLastCamera ==
    (last.op = "render" /\ camera_arg.some) =>
        last.out.v.slot0 = <<camera_arg.v[1], camera_arg.v[2]>>

C7_Witness ==
    /\ last.op = "render"
    /\ camera_arg = Some(<<400, 300>>)
    /\ renderer.queue.draw_calls = 2

\* C8: after update_spheres with n > 0 records the store holds exactly n
\* records and record i is input record i under the layout position at
\* words 0..2, radius at word 3, color at words 4..7; nothing else is in
\* the store.
C8_StoreHoldsInputRecords ==
    (last.op = "update_spheres" /\ Len(last.args) > 0) =>
        /\ renderer.objects_buffer.some
        /\ Len(renderer.objects_buffer.v.data) = 8 * Len(last.args)
        /\ \A i \in 1..Len(last.args) :
              RecordAt(renderer.objects_buffer.v.data, i) =
                  <<last.args[i].position[1], last.args[i].position[2],
                    last.args[i].position[3], last.args[i].radius,
                    last.args[i].color[1], last.args[i].color[2],
                    last.args[i].color[3], last.args[i].color[4]>>

C8_Witness ==
    /\ last.op = "update_spheres"
    /\ last.args = SceneOf(2, 2)
    /\ last.before.some
    /\ last.before.v.size = 64
    /\ renderer.objects_buffer.v.id = 1

\* C9: a non-empty update with fewer records than the store has room for
\* replaces the buffer by a new one of exactly count * 32 bytes, and the
\* binding refers to the new buffer: 0 -> 5 -> 3 gives 0, 160, 96 bytes.
C9_ShrinkReallocates ==
    (/\ last.op = "update_spheres"
     /\ Len(last.args) > 0
     /\ last.before.some
     /\ Len(last.args) * 32 < last.before.v.size) =>
        /\ Capacity(renderer) = Len(last.args) * 32
        /\ renderer.objects_buffer.v.id # last.before.v.id
        /\ renderer.objects_bind_group =
               Some([buffer |-> renderer.objects_buffer.v.id,
                     size   |-> Len(last.args) * 32])

C9_Witness ==
    /\ last.op = "update_spheres"
    /\ Len(last.args) = 3
    /\ last.before = Some([id |-> 1, size |-> 160])
    /\ Capacity(renderer) = 96
    /\ renderer.objects_buffer.v.id = 2

\* C10: the number of draw calls and of submissions changes only in a
\* render call, never in update_camera, update_time or update_spheres.
C10_OnlyRenderDraws ==
    [][renderer'.queue # renderer.queue => last'.op = "render"]_vars

C10_Witness ==
    /\ last.op \in {"update_camera", "update_time", "update_spheres"}
    /\ renderer.queue.draw_calls = 1

\* What one turn of the loop over the targets did, read from the calls it
\* made and from the state it left.
Drew(calls) == \E k \in 1..Len(calls) : calls[k][1] \in {"render", "present"}

Reconfigured(calls) == \E k \in 1..Len(calls) : calls[k][1] = "configure"

\* The loop goes on with the next target, or the render system returns to
\* the event loop after the last one; the process keeps running.
LoopGoesOn ==
    /\ app' = "running"
    /\ Len(targets') = Len(targets)
    /\ IF idx < Len(targets)
       THEN pc' = "Targets" /\ idx' = idx + 1
       ELSE pc' = "idle"

\* C4: when get_current_texture gives Lost for a target, that turn of the
\* loop applies the target's surface configuration (taken from the
\* window's size) to the surface, draws and presents nothing, leaves the
\* other targets alone and the target in the list; and every run of the
\* render system that reaches the loop starts it at the first target, so
\* the next tick acquires for this target again.
C4_LostReconfiguresAndSkips ==
    [][/\ (pc = "Targets" /\ acquired'.result = "Lost") =>
            /\ acquired'.window = targets[idx].window.id
            /\ targets'[idx].window = targets[idx].window
            /\ targets'[idx].config.width = targets[idx].window.inner_size.width
            /\ targets'[idx].config.height = targets[idx].window.inner_size.height
            /\ targets'[idx].surface.config = targets'[idx].config
            /\ \E k \in 1..Len(acquired'.calls) :
                   acquired'.calls[k] = <<"configure", targets'[idx].config.width,
                                          targets'[idx].config.height>>
            /\ ~Drew(acquired'.calls)
            /\ targets'[idx].renderer.queue = targets[idx].renderer.queue
            /\ \A j \in 1..Len(targets) : j # idx => targets'[j] = targets[j]
            /\ LoopGoesOn
       /\ (pc = "Render" /\ pc' = "Targets") => idx' = 1
      ]_vars

C4_Witness ==
    /\ acquired.result = "Lost"
    /\ acquired.window = 2
    /\ app = "running"
    /\ pc = "idle"
    /\ Len(targets) = 2
    /\ targets[2].window.id = 2
    /\ targets[2].surface.config.width = 400
    /\ targets[2].surface.config.height = 300

\* C5: when get_current_texture gives Outdated or Timeout, that turn of
\* the loop makes no call on the surface or the renderer and changes no
\* target (renderer and surface configuration as they were), and the loop
\* goes on; and every turn ends in exactly one of: rendered and presented,
\* reconfigured and skipped, fatal, skipped.
C5_TransientSkipsOneOfFour ==
    [][pc = "Targets" =>
        LET calls     == acquired'.calls
            rendered  == /\ calls = <<<<"render">>, <<"present", 1>>>>
                         /\ LoopGoesOn
            reconfig  == /\ Reconfigured(calls) /\ ~Drew(calls)
                         /\ LoopGoesOn
            fatal     == /\ app' = "panicked"
                         /\ calls = <<>>
            skipped   == /\ calls = <<>>
                         /\ targets' = targets
                         /\ LoopGoesOn
            count(b)  == IF b THEN 1 ELSE 0
        IN /\ acquired'.result \in {"Outdated", "Timeout"} => skipped
           /\ count(rendered) + count(reconfig) + count(fatal) + count(skipped) = 1
      ]_vars

C5_Witness ==
    /\ acquired.result = "Timeout"
    /\ acquired.window = 1
    /\ app = "running"
    /\ pc = "Targets"
    /\ idx = 2
    /\ targets[1].renderer.objects_buffer.some

\* C6 (as stated): when get_current_texture gives OutOfMemory the render
\* system hands the error to its caller; the process does not die inside
\* the render system.
C6_OutOfMemoryReported ==
    acquired.result = "OutOfMemory" => app # "panicked"

\* C11: a render call leaves the camera uniform, the time uniform, the
\* object buffer (handle and contents) and the object binding as they
\* were; two render calls with no setter between them submit the same
\* pass.
C11_RenderKeepsUniformsAndObjects ==
    [][last'.op = "render" =>
          /\ renderer'.camera_buffer = renderer.camera_buffer
          /\ renderer'.time_buffer = renderer.time_buffer
          /\ renderer'.objects_buffer = renderer.objects_buffer
          /\ renderer'.objects_bind_group = renderer.objects_bind_group
          /\ renderer'.device = renderer.device
          /\ last.op = "render" => last'.out = last.out
      ]_vars

C11_Witness ==
    /\ last.op = "render"
    /\ renderer.queue.draw_calls = 2
    /\ last.out.v.slot1 = <<16, 0>>
    /\ last.out.v.slot0 = <<400, 600>>
    /\ last.out.v.slot2.some
    /\ last.before = Some([id |-> 2, size |-> 96])

\* C12: a setter called again with the arguments of the call just before
\* it leaves the renderer as the first call left it; and an update_spheres
\* with as many records as the buffer has room for keeps the buffer handle
\* and the binding.
C12_SettersIdempotent ==
    [][/\ (/\ last'.op \in {"update_camera", "update_time", "update_spheres"}
           /\ last.op = last'.op
           /\ last.args = last'.args) => renderer' = renderer
       /\ (/\ last'.op = "update_spheres"
           /\ renderer.objects_buffer.some
           /\ Len(last'.args) * SPHERE_SIZE = renderer.objects_buffer.v.size) =>
              /\ BufferHandle(renderer') = BufferHandle(renderer)
              /\ renderer'.objects_bind_group = renderer.objects_bind_group
              /\ renderer'.device = renderer.device
      ]_vars

C12_Witness ==
    /\ last.op = "update_spheres"
    /\ last.args = SceneOf(3, 2)
    /\ last.before = Some([id |-> 1, size |-> 96])
    /\ BufferHandle(renderer) = last.before
    /\ renderer.device.created = 1
    /\ RecordAt(renderer.objects_buffer.v.data, 3) = CastSphere(SphereOf(3, 2))

\* C13 (as stated): when the object buffer cannot be allocated or its
\* write cannot be staged during update_spheres, the failure is an error
\* outcome, the frame is skipped and the process keeps running.
C13_AllocationFailureSkipsFrame ==
    pc = "Extract" => app = "running"

\* C14: whenever get_current_texture is about to be called (the render
\* system is in its loop over the targets), no reported resize is waiting
\* to be read, and the configuration of every target has the width and
\* height last reported for its window and is the one applied to its
\* surface.
C14_ResizeAppliedBeforeAcquire ==
    pc = "Targets" =>
        /\ events = <<>>
        /\ \A i \in 1..Len(targets) :
              /\ targets[i].config.width = targets[i].window.inner_size.width
              /\ targets[i].config.height = targets[i].window.inner_size.height
              /\ targets[i].surface.config = targets[i].config

C14_Witness ==
    /\ pc = "Targets"
    /\ idx = 1
    /\ acquired.result = "none"
    /\ targets[1].window.inner_size = [width |-> 400, height |-> 300]
    /\ targets[1].surface.config.width = 400
    /\ targets[1].surface.config.height = 300

\* C15: the elapsed time a step writes to the time uniform of a target is
\* never below the one the target had before the step, and the time of the
\* Time resource never goes back: over any two ticks the later update_time
\* gets a value greater than or equal to the earlier one, whatever
\* happened to the frames between them.
C15_TimeNonDecreasing ==
    [][/\ time'.time_ms >= time.time_ms
       /\ \A i \in 1..Len(targets) : \A j \in 1..Len(targets') :
             targets'[j].window.id = targets[i].window.id =>
                 targets'[j].renderer.time_buffer[1] >=
                     targets[i].renderer.time_buffer[1]
       /\ (pc = "idle" /\ pc' = "Render") =>
             \A j \in 1..Len(targets') :
                 targets'[j].renderer.time_buffer =
                     CastTimeUniform(AsF32(now' - time.start))
      ]_vars

C15_Witness ==
    /\ pc = "Render"
    /\ now = 10
    /\ acquired.result \in {"Outdated", "Timeout"}
    /\ acquired.window = 1
    /\ Len(targets) = 2
    /\ targets[1].renderer.time_buffer = <<10, 0>>
    /\ targets[2].renderer.time_buffer = <<10, 0>>

\* C16 (as stated): at no step of a replacement made by update_spheres
\* does the field objects_bind_group hold a binding to a buffer whose
\* handle was already dropped.
C16_BindingNeverOfDroppedBuffer ==
    (last.op = "update_spheres" /\ last.out.some) =>
        \A k \in 1..Len(last.out.v) :
            last.out.v[k].objects_bind_group.some =>
                last.out.v[k].objects_bind_group.v.buffer \notin last.out.v[k].dropped

\* C17: the renderer has an object buffer exactly when it has an object
\* binding, the binding is the one built from that buffer, and it is what
\* a render binds at slot 2; the buffer is the last one the device
\* created, so no draw refers to a buffer an earlier update replaced.
C17_RenderBindsCurrentBuffer ==
    /\ renderer.objects_buffer.some <=> renderer.objects_bind_group.some
    /\ renderer.objects_buffer.some =>
          /\ renderer.objects_bind_group.v =
                 [buffer |-> renderer.objects_buffer.v.id,
                  size   |-> renderer.objects_buffer.v.size]
          /\ renderer.objects_buffer.v.id = renderer.device.created
    /\ last.op = "render" => last.out.v.slot2 = renderer.objects_bind_group

C17_Witness ==
    /\ last.op = "render"
    /\ last.out.v.slot2 = Some([buffer |-> 3, size |-> 32])
    /\ renderer.objects_buffer.v.id = 3
    /\ renderer.device.created = 3

\* C18 (as stated): the reconfiguration for a reported resize comes before
\* the synchronisation calls of its tick: once update_time and
\* update_spheres of a tick are made (the Render schedule is next), no
\* surface is reconfigured for a resize in what is left of the tick.
C18_NoReconfigurationAfterSync ==
    [][pc = "Render" =>
          \A i \in 1..Len(targets) : targets'[i].surface = targets[i].surface
      ]_vars

\* C19: for every target, what a draw binds at slot 0 is the width and
\* height of the configuration of the target, which is the one applied to
\* its surface: after add, after the resizes of reported events and after
\* the resize of a Lost acquisition.
C19_CameraIsSurfaceSize ==
    \A i \in 1..Len(targets) :
        /\ targets[i].surface.config = targets[i].config
        /\ RenderPass(targets[i].renderer).slot0 =
               <<targets[i].config.width, targets[i].config.height>>

C19_Witness ==
    /\ acquired.result = "Ok"
    /\ acquired.window = 2
    /\ acquired.calls = <<<<"render">>, <<"present", 1>>>>
    /\ Len(targets) = 2
    /\ targets[2].config.width = 400
    /\ targets[2].config.height = 300
    /\ targets[2].renderer.camera_buffer = <<400, 300>>
    /\ targets[1].renderer.camera_buffer = <<800, 600>>

\* C20: a new renderer has no object buffer; a call gives it one only if
\* it is an update_spheres with at least one record, every such call
\* leaves it with one, and no call, an empty update included, takes the
\* buffer away once it is there.
C20_ObjectBufferLazy ==
    [][/\ last.op = "new" => ~renderer.objects_buffer.some
       /\ renderer.objects_buffer.some => renderer'.objects_buffer.some
       /\ (~renderer.objects_buffer.some /\ renderer'.objects_buffer.some) =>
              (last'.op = "update_spheres" /\ Len(last'.args) > 0)
       /\ (last'.op = "update_spheres" /\ Len(last'.args) > 0) =>
              renderer'.objects_buffer.some
      ]_vars

C20_Witness ==
    /\ last.op = "update_spheres"
    /\ last.args = <<>>
    /\ last.before = Some([id |-> 2, size |-> 64])
    /\ BufferHandle(renderer) = last.before
    /\ renderer.queue.draw_calls = 1

\* C21 (as stated): the first loop of the render system, which reads the
\* queued window events, never ends the process, whatever Resized and
\* CloseRequested events came between the ticks.
C21_QueuedEventsNeverAbortTick ==
    [][pc = "Render" => app' = "running"]_vars

\* C22: a turn of the loop that gets Lost, Outdated or Timeout changes no
\* other target and the loop goes on to the next target; a turn that gets
\* Ok renders and presents its target once, also when an earlier turn of
\* the same tick skipped its frame, and changes no other target; the loop
\* takes every target once, in order.
C22_SkipIsPerTarget ==
    [][pc = "Targets" =>
          /\ idx \in 1..Len(targets)
          /\ acquired'.window = targets[idx].window.id
          /\ acquired'.result \in {"Lost", "Outdated", "Timeout"} =>
                /\ LoopGoesOn
                /\ ~Drew(acquired'.calls)
                /\ \A j \in 1..Len(targets) : j # idx => targets'[j] = targets[j]
          /\ acquired'.result = "Ok" =>
                /\ LoopGoesOn
                /\ acquired'.calls = <<<<"render">>, <<"present", 1>>>>
                /\ \A j \in 1..Len(targets) : j # idx => targets'[j] = targets[j]
      ]_vars

C22_Witness ==
    /\ acquired.result = "Ok"
    /\ acquired.skipped
    /\ acquired.window = 2
    /\ acquired.calls = <<<<"render">>, <<"present", 1>>>>
    /\ Len(targets) = 2
    /\ app = "running"
    /\ pc = "idle"

====
